---- MODULE Spec2Model ----
(***************************************************************************)
(* Model of the carbon-sequestration estimation core of CarbonTally       *)
(* (src/carbonfao.py): the reference data loaded at import, the zone      *)
(* lookup get_agro_ecological_zone, the coefficient resolver              *)
(* get_aez_coefficients and the estimator calculate_co2_sequestered; of   *)
(* the monitoring script src/monitoring_app.py; and of process_submission *)
(* in src/kobo_monitoring.py with the SQLite tables it reads and writes.  *)
(*                                                                         *)
(* Python values are records tagged by k: "none", "str" (s: a sequence of  *)
(* one-character strings) and "num".  A number is the real                 *)
(* (n/d) * PROD base^exp over the formal powers listed in pw; pw is empty  *)
(* for every rational.  Arithmetic is exact: the rounding of 64-bit        *)
(* floats is not modelled.                                                 *)
(***************************************************************************)
EXTENDS Integers, Sequences, FiniteSets, TLC

VARIABLES
    SPECIES_ALLOMETRIC,  \* carbonfao.SPECIES_ALLOMETRIC
    FAO_AEZ_GDF,         \* carbonfao.FAO_AEZ_GDF
    call,                \* the function called last and its arguments
    last,                \* the outcome of that call and its locals
    files,               \* the two reference files on disk
    modules,             \* the modules imported so far (sys.modules)
    loads,               \* how many times each reference file was read
    process,             \* running, or the exception that ended the process
    kobo_monitoring,     \* the reference tables of module kobo_monitoring
    threads,             \* the calls running concurrently, step by step
    trees,               \* table trees of trees.db, by tree_id
    tree_monitoring,     \* table tree_monitoring of monitoring.db, by id
    processed_submissions, \* the submission_id column of processed_submissions
    today,               \* datetime.utcnow().date(), as a day number
    history              \* what each submission id has caused so far

\* the two databases and the clock
db_vars == <<trees, tree_monitoring, processed_submissions, today, history>>

\* the state of the process around the calls
process_vars ==
    <<files, modules, loads, process, kobo_monitoring, threads, trees,
      tree_monitoring, processed_submissions, today, history>>

\* the state of the modules, apart from the running calls
module_vars ==
    <<SPECIES_ALLOMETRIC, FAO_AEZ_GDF, call, last, files, modules, loads,
      process, kobo_monitoring>>

vars == <<SPECIES_ALLOMETRIC, FAO_AEZ_GDF, call, last, files, modules, loads,
          process, kobo_monitoring, threads, trees, tree_monitoring,
          processed_submissions, today, history>>

\* ------------------------------------------------------------------------
\* Bounds of the model
\* ------------------------------------------------------------------------
\* longest species string passed to a call
MaxLen == 2
\* number of calls running concurrently
MaxThreads == 2
\* number of days the clock can show
MaxDay == 2
\* coordinates of the grid the zone polygons are drawn on: 0..GridMax
GridMax == 1

\* ------------------------------------------------------------------------
\* Python values
\* ------------------------------------------------------------------------
None == [k |-> "none"]

Str(s) == [k |-> "str", s |-> s]

RECURSIVE GCD(_, _)
GCD(x, y) == IF y = 0 THEN x ELSE GCD(y, x % y)

Abs(x) == IF x < 0 THEN -x ELSE x

\* the rational n/d in lowest terms, d > 0
Rat(n, d) ==
    LET g == GCD(Abs(n), Abs(d))
        s == IF d < 0 THEN -1 ELSE 1
    IN [k |-> "num", n |-> (s * n) \div g, d |-> (s * d) \div g, pw |-> <<>>]

IsNone(v) == v.k = "none"

\* isinstance(v, (int, float))
IsNumeric(v) == v.k = "num"

\* isinstance(v, str)
IsStr(v) == v.k = "str"

IsRational(v) == IsNumeric(v) /\ v.pw = <<>>

\* x * y on numbers
Mul(x, y) ==
    LET q == Rat(x.n * y.n, x.d * y.d)
    IN [k |-> "num", n |-> q.n, d |-> q.d,
        pw |-> IF q.n = 0 THEN <<>> ELSE x.pw \o y.pw]

\* x <= 0 on numbers (a formal power of a positive base is positive)
LeqZero(x) == x.n <= 0

RECURSIVE IntPow(_, _)
IntPow(x, e) == IF e = 0 THEN Rat(1, 1) ELSE Mul(x, IntPow(x, e - 1))

\* x ** e for a positive rational x and a non-negative rational e: computed
\* when e is an integer, x = 1 or x = 0, kept as the formal power x^e otherwise
Pow(x, e) ==
    IF e.d = 1 THEN IntPow(x, e.n)
    ELSE IF x.n = x.d THEN Rat(1, 1)
    ELSE IF x.n = 0 THEN Rat(0, 1)
    ELSE [k |-> "num", n |-> 1, d |-> 1, pw |-> <<<<x.n, x.d, e.n, e.d>>>>]

\* ------------------------------------------------------------------------
\* Strings: str.strip(), str.lower(), float(str)
\* ------------------------------------------------------------------------
Whitespace == {" "}

LowerChar(c) == IF c = "A" THEN "a" ELSE IF c = "B" THEN "b" ELSE c

Lower(s) == [i \in 1..Len(s) |-> LowerChar(s[i])]

RECURSIVE LStrip(_)
LStrip(s) ==
    IF s # <<>> /\ Head(s) \in Whitespace THEN LStrip(Tail(s)) ELSE s

RECURSIVE RStrip(_)
RStrip(s) ==
    IF s # <<>> /\ s[Len(s)] \in Whitespace
    THEN RStrip(SubSeq(s, 1, Len(s) - 1))
    ELSE s

Strip(s) == RStrip(LStrip(s))

Digits == {"0", "1", "2", "3", "4", "5", "6", "7", "8", "9"}

DigitVal(c) ==
    CASE c = "0" -> 0 [] c = "1" -> 1 [] c = "2" -> 2 [] c = "3" -> 3
      [] c = "4" -> 4 [] c = "5" -> 5 [] c = "6" -> 6 [] c = "7" -> 7
      [] c = "8" -> 8 [] c = "9" -> 9

RECURSIVE DigitsVal(_)
DigitsVal(s) ==
    IF s = <<>> THEN 0
    ELSE 10 * DigitsVal(SubSeq(s, 1, Len(s) - 1)) + DigitVal(s[Len(s)])

Return(v) == [k |-> "return", v |-> v]

Raise(e) == [k |-> "raise", exc |-> e]

\* float(v): a number is kept, a string of digits (surrounding whitespace
\* ignored) is parsed, any other string raises ValueError, None TypeError
Float(v) ==
    IF IsNumeric(v) THEN Return(v)
    ELSE IF IsStr(v)
    THEN LET t == Strip(v.s)
         IN IF t # <<>> /\ \A i \in 1..Len(t) : t[i] \in Digits
            THEN Return(Rat(DigitsVal(t), 1))
            ELSE Raise("ValueError")
    ELSE Raise("TypeError")

\* ------------------------------------------------------------------------
\* Reference data, loaded when the module is imported
\* ------------------------------------------------------------------------
Coeffs(a, b, c) == [a |-> a, b |-> b, c |-> c]

Row(species, a, b, c) == [species |-> species, a |-> a, b |-> b, c |-> c]

Missing == [k |-> "missing"]

File(rows) == [k |-> "file", rows |-> rows]

\* contents of data/species_allometrics.csv the model is run with
CsvFiles ==
    { Missing,
      File(<< Row(<<"A", "a", " ">>, Rat(1, 1), Rat(1, 1), Rat(1, 1)) >>),
      File(<< Row(<<" ">>, Rat(6, 100), Rat(23, 10), Rat(1, 1)),
              Row(<<"a">>, Rat(3, 1), Rat(2, 1), Rat(1, 1)),
              Row(<<" ", "A">>, Rat(2, 1), Rat(2, 1), Rat(2, 1)) >>),
      File(<< Row(<<"a">>, Rat(-1, 1), Rat(2, 1), Rat(1, 1)) >>) }

\* the dict comprehension: one entry per normalised species name, a later
\* row replacing an earlier row with the same key
SpeciesDict(rows) ==
    LET key(i) == Lower(Strip(rows[i].species))
        keys == {key(i) : i \in 1..Len(rows)}
        lastRow(kk) == CHOOSE i \in 1..Len(rows) :
                           /\ key(i) = kk
                           /\ \A j \in 1..Len(rows) : key(j) = kk => j <= i
    IN [kk \in keys |->
            Coeffs(rows[lastRow(kk)].a, rows[lastRow(kk)].b, rows[lastRow(kk)].c)]

\* the load falling back to a placeholder entry when the file is missing
LoadSpecies_placeholder(csv) ==
    IF csv.k = "missing"
    THEN SpeciesDict(<< Row(<<>>, Rat(1, 1), Rat(1, 1), Rat(1, 1)) >>)
    ELSE SpeciesDict(csv.rows)

\* SPECIES_ALLOMETRIC after the try/except around pd.read_csv
LoadSpecies(csv) ==
    IF csv.k = "missing" THEN SpeciesDict(<<>>) ELSE SpeciesDict(csv.rows)

Zone(name, geometry) == [gez_name |-> name, geometry |-> geometry]

\* a GeoDataFrame: its rows in file order and whether it has a gez_name column
Gdf(rows, named) == [rows |-> rows, has_gez_name |-> named]

ZoneRows ==
    << Zone("Tropical Rainforest", {<<0, 0>>, <<0, 1>>}),
       Zone("Temperate Forest", {<<0, 1>>}),
       Zone("Polar", {<<1, 0>>}) >>

\* contents of data/gez2010/gez_2010_wgs84.shp the model is run with
ShapeFiles ==
    { Missing,
      [k |-> "file", gdf |-> Gdf(ZoneRows, TRUE)],
      [k |-> "file", gdf |-> Gdf(ZoneRows, FALSE)] }

\* FAO_AEZ_GDF after the try/except around gpd.read_file
LoadGdf(shp) ==
    IF shp.k = "missing" THEN Gdf(<<>>, FALSE) ELSE shp.gdf

\* ------------------------------------------------------------------------
\* get_agro_ecological_zone
\* ------------------------------------------------------------------------
\* gdf.geometry.contains(Point(lon, lat)) for one row: the geometry is the
\* set of grid points strictly inside the polygon
Contains(geometry, lon, lat) ==
    /\ IsRational(lon) /\ lon.d = 1
    /\ IsRational(lat) /\ lat.d = 1
    /\ <<lon.n, lat.n>> \in geometry

\* the lookup returning the last matching row instead of the first
get_agro_ecological_zone_last_match(lat, lon, gdf) ==
    IF ~IsNumeric(lat) \/ ~IsNumeric(lon) \/ gdf.rows = <<>> THEN None
    ELSE LET Hit(r) == Contains(r.geometry, lon, lat)
             match == SelectSeq(gdf.rows, Hit)
         IN IF match # <<>>
            THEN IF gdf.has_gez_name
                 THEN [k |-> "str", s |-> match[Len(match)].gez_name]
                 ELSE None
            ELSE None

\* the first matching row's gez_name; a frame without that column raises
\* KeyError inside the try block, which the except turns into None
get_agro_ecological_zone(lat, lon, gdf) ==
    IF ~IsNumeric(lat) \/ ~IsNumeric(lon) \/ gdf.rows = <<>> THEN None
    ELSE LET Hit(r) == Contains(r.geometry, lon, lat)
             match == SelectSeq(gdf.rows, Hit)
         IN IF match # <<>>
            THEN IF gdf.has_gez_name
                 THEN [k |-> "str", s |-> match[1].gez_name]
                 ELSE None
            ELSE None

\* get_agro_ecological_zone of kobo_monitoring.py: no test of the argument
\* types and none of an empty frame; Point(lon, lat) converts a coordinate
\* that is not a number with float(), and whatever is raised gives None
kobo_monitoring_get_agro_ecological_zone(lat, lon, gdf) ==
    LET y == Float(lat)
        x == Float(lon)
    IN IF y.k = "raise" \/ x.k = "raise" THEN None
       ELSE LET Hit(r) == Contains(r.geometry, x.v, y.v)
                match == SelectSeq(gdf.rows, Hit)
            IN IF match # <<>>
               THEN IF gdf.has_gez_name
                    THEN [k |-> "str", s |-> match[1].gez_name]
                    ELSE None
               ELSE None

\* ------------------------------------------------------------------------
\* get_aez_coefficients
\* ------------------------------------------------------------------------
\* the zone table with differently written copies of one of its keys
aez_table_case_variants ==
    [z \in {"Tropical Rainforest", "Tropical Moist Forest",
            "Tropical Dry Forest", "Temperate Forest",
            "Subtropical Northern Hemisphere",
            "Subtropical Southern Hemisphere",
            "temperate forest", "Temperate Forest "} |->
        CASE z = "Tropical Rainforest" ->
                 Coeffs(Rat(509, 10000), Rat(24, 10), Rat(1, 1))
          [] z = "Tropical Moist Forest" ->
                 Coeffs(Rat(60, 1000), Rat(23, 10), Rat(1, 1))
          [] z = "Tropical Dry Forest" ->
                 Coeffs(Rat(45, 1000), Rat(25, 10), Rat(1, 1))
          [] z \in {"Temperate Forest", "temperate forest",
                    "Temperate Forest "} ->
                 Coeffs(Rat(34, 1000), Rat(26, 10), Rat(1, 1))
          [] z = "Subtropical Northern Hemisphere" ->
                 Coeffs(Rat(30, 1000), Rat(24, 10), Rat(1, 1))
          [] z = "Subtropical Southern Hemisphere" ->
                 Coeffs(Rat(35, 1000), Rat(23, 10), Rat(1, 1))]

aez_table ==
    [z \in {"Tropical Rainforest", "Tropical Moist Forest",
            "Tropical Dry Forest", "Temperate Forest",
            "Subtropical Northern Hemisphere",
            "Subtropical Southern Hemisphere"} |->
        CASE z = "Tropical Rainforest" ->
                 Coeffs(Rat(509, 10000), Rat(24, 10), Rat(1, 1))
          [] z = "Tropical Moist Forest" ->
                 Coeffs(Rat(60, 1000), Rat(23, 10), Rat(1, 1))
          [] z = "Tropical Dry Forest" ->
                 Coeffs(Rat(45, 1000), Rat(25, 10), Rat(1, 1))
          [] z = "Temperate Forest" ->
                 Coeffs(Rat(34, 1000), Rat(26, 10), Rat(1, 1))
          [] z = "Subtropical Northern Hemisphere" ->
                 Coeffs(Rat(30, 1000), Rat(24, 10), Rat(1, 1))
          [] z = "Subtropical Southern Hemisphere" ->
                 Coeffs(Rat(35, 1000), Rat(23, 10), Rat(1, 1))]

DefaultCoeffs == Coeffs(Rat(25, 100), Rat(2, 1), Rat(1, 1))

\* the key trimmed but not lowercased
SpeciesKey_case_sensitive(species) ==
    IF IsStr(species) THEN Strip(species.s) ELSE <<>>

\* species.strip().lower() if isinstance(species, str) else ""
SpeciesKey(species) == IF IsStr(species) THEN Lower(Strip(species.s)) ELSE <<>>

\* aez_identifier in aez_table
InAezTable(aez_identifier) ==
    IsStr(aez_identifier) /\ aez_identifier.s \in DOMAIN aez_table

\* the resolver with the zone table consulted before the species table
get_aez_coefficients_zone_first(aez_identifier, species, table) ==
    LET species_key == SpeciesKey(species)
    IN IF InAezTable(aez_identifier) THEN aez_table[aez_identifier.s]
       ELSE IF species_key \in DOMAIN table THEN table[species_key]
       ELSE DefaultCoeffs

\* the resolver taking b and c from the zone when both levels match
get_aez_coefficients_merging(aez_identifier, species, table) ==
    LET species_key == SpeciesKey(species)
    IN IF species_key \in DOMAIN table
       THEN IF InAezTable(aez_identifier)
            THEN Coeffs(table[species_key].a, aez_table[aez_identifier.s].b,
                        aez_table[aez_identifier.s].c)
            ELSE table[species_key]
       ELSE IF InAezTable(aez_identifier) THEN aez_table[aez_identifier.s]
       ELSE DefaultCoeffs

get_aez_coefficients(aez_identifier, species, table) ==
    LET species_key == SpeciesKey(species)
    IN IF species_key \in DOMAIN table THEN table[species_key]
       ELSE IF InAezTable(aez_identifier) THEN aez_table[aez_identifier.s]
       ELSE DefaultCoeffs

\* ------------------------------------------------------------------------
\* calculate_co2_sequestered
\* ------------------------------------------------------------------------
\* a conversion factor of 0.9
RCD_TO_DBH_nine_tenths == Rat(9, 10)

RCD_TO_DBH == Rat(8, 10)

ROOT_SHOOT == Rat(12, 10)

\* a dry-matter fraction of 75%
DRY_MATTER_three_quarters == Rat(75, 100)

DRY_MATTER == Rat(725, 1000)

CARBON_FRACTION == Rat(5, 10)

\* the molar ratio 44/12 in place of 3.67
C_TO_CO2_molar == Rat(44, 12)

C_TO_CO2 == Rat(367, 100)

\* step 1 with a missing diameter taken as 0
ResolveDbh_missing_as_zero(dbh_cm, rcd_cm) ==
    IF IsNone(dbh_cm)
    THEN IF IsNumeric(rcd_cm) THEN Return(Mul(rcd_cm, RCD_TO_DBH))
         ELSE IF IsNone(rcd_cm) THEN Return(Rat(0, 1))
         ELSE Raise("TypeError")
    ELSE Return(dbh_cm)

\* step 1 with a dbh_cm of 0 replaced by the RCD estimate as well
ResolveDbh_zero_falls_back(dbh_cm, rcd_cm) ==
    IF (IsNone(dbh_cm) \/ dbh_cm = Rat(0, 1)) /\ ~IsNone(rcd_cm)
    THEN IF IsNumeric(rcd_cm) THEN Return(Mul(rcd_cm, RCD_TO_DBH))
         ELSE Raise("TypeError")
    ELSE Return(dbh_cm)

\* step 1: dbh_cm after the RCD substitution; rcd_cm * 0.8 raises TypeError
\* when rcd_cm is a string
ResolveDbh(dbh_cm, rcd_cm) ==
    IF IsNone(dbh_cm) /\ ~IsNone(rcd_cm)
    THEN IF IsNumeric(rcd_cm) THEN Return(Mul(rcd_cm, RCD_TO_DBH))
         ELSE Raise("TypeError")
    ELSE Return(dbh_cm)

\* step 2 with a coordinate that float() rejects read as 0
ResolveZone_unparsed_as_zero(latitude, longitude, gdf) ==
    IF ~IsNone(latitude) /\ ~IsNone(longitude)
    THEN LET lat == Float(latitude)
             lon == Float(longitude)
         IN get_agro_ecological_zone(
                IF lat.k = "raise" THEN Rat(0, 1) ELSE lat.v,
                IF lon.k = "raise" THEN Rat(0, 1) ELSE lon.v, gdf)
    ELSE None

\* step 2 with a missing coordinate read as 0
ResolveZone_missing_as_zero(latitude, longitude, gdf) ==
    LET lat == Float(IF IsNone(latitude) THEN Rat(0, 1) ELSE latitude)
        lon == Float(IF IsNone(longitude) THEN Rat(0, 1) ELSE longitude)
    IN IF lat.k = "raise" \/ lon.k = "raise" THEN None
       ELSE get_agro_ecological_zone(lat.v, lon.v, gdf)

\* step 2: the zone used; float() failing on a coordinate leaves it None
ResolveZone(latitude, longitude, gdf) ==
    IF ~IsNone(latitude) /\ ~IsNone(longitude)
    THEN LET lat == Float(latitude)
             lon == Float(longitude)
         IN IF lat.k = "raise" \/ lon.k = "raise" THEN None
            ELSE get_agro_ecological_zone(lat.v, lon.v, gdf)
    ELSE None

\* the pipeline with dbh_cm written where height_m belongs
Pipeline_height_as_dbh(dbh_cm, height_m, coeffs) ==
    LET agb_kg == Mul(Mul(coeffs.a, Pow(dbh_cm, coeffs.b)),
                      Pow(dbh_cm, coeffs.c))
        total_biomass == Mul(agb_kg, ROOT_SHOOT)
        dry_weight == Mul(total_biomass, DRY_MATTER)
        carbon_kg == Mul(dry_weight, CARBON_FRACTION)
        co2_kg == Mul(carbon_kg, C_TO_CO2)
    IN [agb_kg |-> agb_kg, total_biomass |-> total_biomass,
        dry_weight |-> dry_weight, carbon_kg |-> carbon_kg, co2_kg |-> co2_kg]

\* steps 4 and 5: the values of the locals agb_kg .. co2_kg
Pipeline(dbh_cm, height_m, coeffs) ==
    LET agb_kg == Mul(Mul(coeffs.a, Pow(dbh_cm, coeffs.b)),
                      Pow(height_m, coeffs.c))
        total_biomass == Mul(agb_kg, ROOT_SHOOT)
        dry_weight == Mul(total_biomass, DRY_MATTER)
        carbon_kg == Mul(dry_weight, CARBON_FRACTION)
        co2_kg == Mul(carbon_kg, C_TO_CO2)
    IN [agb_kg |-> agb_kg, total_biomass |-> total_biomass,
        dry_weight |-> dry_weight, carbon_kg |-> carbon_kg, co2_kg |-> co2_kg]

\* the outcome of a call and the locals it had when it ended
Ended(out, aez_identifier, coeffs, stages) ==
    [out |-> out, aez_identifier |-> aez_identifier, coeffs |-> coeffs,
     stages |-> stages]

\* the estimator with the non-positive short-circuit ahead of the type check
calculate_co2_sequestered_zero_first(dbh_cm, height_m, rcd_cm, species, latitude, longitude, table, gdf) ==
    LET resolved == ResolveDbh(dbh_cm, rcd_cm)
    IN IF resolved.k = "raise" THEN Ended(resolved, None, None, None)
       ELSE IF \/ IsNumeric(resolved.v) /\ LeqZero(resolved.v)
               \/ IsNumeric(height_m) /\ LeqZero(height_m)
       THEN Ended(Return(Rat(0, 1)), None, None, None)
       ELSE IF ~IsNumeric(resolved.v) \/ ~IsNumeric(height_m)
       THEN Ended(Raise("ValueError"), None, None, None)
       ELSE LET aez_identifier == ResolveZone(latitude, longitude, gdf)
                coeffs == get_aez_coefficients(aez_identifier, species, table)
                stages == Pipeline(resolved.v, height_m, coeffs)
            IN Ended(Return(stages.co2_kg), aez_identifier, coeffs, stages)

\* the estimator without the try/except around the float() conversions
calculate_co2_sequestered_float_unguarded(dbh_cm, height_m, rcd_cm, species, latitude, longitude, table, gdf) ==
    LET resolved == ResolveDbh(dbh_cm, rcd_cm)
        lat == Float(latitude)
        lon == Float(longitude)
    IN IF resolved.k = "raise" THEN Ended(resolved, None, None, None)
       ELSE IF ~IsNumeric(resolved.v) \/ ~IsNumeric(height_m)
       THEN Ended(Raise("ValueError"), None, None, None)
       ELSE IF LeqZero(resolved.v) \/ LeqZero(height_m)
       THEN Ended(Return(Rat(0, 1)), None, None, None)
       ELSE IF ~IsNone(latitude) /\ ~IsNone(longitude) /\ lat.k = "raise"
       THEN Ended(lat, None, None, None)
       ELSE IF ~IsNone(latitude) /\ ~IsNone(longitude) /\ lon.k = "raise"
       THEN Ended(lon, None, None, None)
       ELSE LET aez_identifier == ResolveZone(latitude, longitude, gdf)
                coeffs == get_aez_coefficients(aez_identifier, species, table)
                stages == Pipeline(resolved.v, height_m, coeffs)
            IN Ended(Return(stages.co2_kg), aez_identifier, coeffs, stages)

\* the estimator with the short-circuit testing dbh_cm only
calculate_co2_sequestered_dbh_only(dbh_cm, height_m, rcd_cm, species, latitude, longitude, table, gdf) ==
    LET resolved == ResolveDbh(dbh_cm, rcd_cm)
    IN IF resolved.k = "raise" THEN Ended(resolved, None, None, None)
       ELSE IF ~IsNumeric(resolved.v) \/ ~IsNumeric(height_m)
       THEN Ended(Raise("ValueError"), None, None, None)
       ELSE IF LeqZero(resolved.v)
       THEN Ended(Return(Rat(0, 1)), None, None, None)
       ELSE LET aez_identifier == ResolveZone(latitude, longitude, gdf)
                coeffs == get_aez_coefficients(aez_identifier, species, table)
                stages == Pipeline(resolved.v, height_m, coeffs)
            IN Ended(Return(stages.co2_kg), aez_identifier, coeffs, stages)

calculate_co2_sequestered(dbh_cm, height_m, rcd_cm, species, latitude, longitude, table, gdf) ==
    LET resolved == ResolveDbh(dbh_cm, rcd_cm)
    IN IF resolved.k = "raise" THEN Ended(resolved, None, None, None)
       ELSE IF ~IsNumeric(resolved.v) \/ ~IsNumeric(height_m)
       THEN Ended(Raise("ValueError"), None, None, None)
       ELSE IF LeqZero(resolved.v) \/ LeqZero(height_m)
       THEN Ended(Return(Rat(0, 1)), None, None, None)
       ELSE LET aez_identifier == ResolveZone(latitude, longitude, gdf)
                coeffs == get_aez_coefficients(aez_identifier, species, table)
                stages == Pipeline(resolved.v, height_m, coeffs)
            IN Ended(Return(stages.co2_kg), aez_identifier, coeffs, stages)

\* ------------------------------------------------------------------------
\* Inputs of the calls
\* ------------------------------------------------------------------------
RECURSIVE StringsUpTo(_, _)
StringsUpTo(alphabet, n) ==
    IF n = 0 THEN {<<>>}
    ELSE LET shorter == StringsUpTo(alphabet, n - 1)
         IN shorter \cup {Append(s, c) : s \in shorter, c \in alphabet}

SpeciesValues ==
    {None, Rat(3, 1)} \cup {Str(s) : s \in StringsUpTo({"a", "A", " "}, MaxLen)}

ZoneValues ==
    {None} \cup {[k |-> "str", s |-> z] :
                    z \in DOMAIN aez_table \cup {"Polar", "temperate forest",
                                                 "Temperate Forest "}}

DbhValues == {None, Str(<<"x">>), Rat(-1, 1), Rat(0, 1), Rat(1, 1), Rat(8, 1)}

HeightValues ==
    {None, Str(<<"5">>), Rat(-1, 1), Rat(0, 1), Rat(1, 1), Rat(5, 1)}

RcdValues == {None, Str(<<"1", "0">>), Rat(0, 1), Rat(5, 2), Rat(10, 1)}

LatValues ==
    {None, Str(<<"x">>), Rat(999, 1)} \cup {Rat(i, 1) : i \in 0..GridMax}

LonValues == {None, Str(<<"1">>)} \cup {Rat(i, 1) : i \in 0..GridMax}

\* ------------------------------------------------------------------------
\* The state machine: the import, then one call applied to its arguments
\* ------------------------------------------------------------------------
ZoneCalls ==
    [fn : {"get_agro_ecological_zone"}, lat : LatValues, lon : LonValues]

CoefficientCalls ==
    [fn : {"get_aez_coefficients"}, aez_identifier : ZoneValues,
     species : SpeciesValues]

CalculateCalls ==
    [fn : {"calculate_co2_sequestered"}, dbh_cm : DbhValues,
     height_m : HeightValues, rcd_cm : RcdValues, species : SpeciesValues,
     latitude : LatValues, longitude : LonValues]

Pending == [k |-> "pending"]

Running == [k |-> "running"]

NotImported == [k |-> "not imported"]

NoThreads == << >>

\* no database has been opened
DbClosed ==
    /\ trees = << >>
    /\ tree_monitoring = << >>
    /\ processed_submissions = {}
    /\ today = 1
    /\ history = << >>

\* carbonfao has been imported from readable files (or none), once
Init ==
    /\ files \in [shp : ShapeFiles, csv : CsvFiles]
    /\ SPECIES_ALLOMETRIC = LoadSpecies(files.csv)
    /\ FAO_AEZ_GDF = LoadGdf(files.shp)
    /\ call \in ZoneCalls \cup CoefficientCalls \cup CalculateCalls
    /\ last = Pending
    /\ modules = {"carbonfao"}
    /\ loads = [shp |-> 1, csv |-> 1]
    /\ process = Running
    /\ kobo_monitoring = NotImported
    /\ threads = NoThreads
    /\ DbClosed

CallGetAgroEcologicalZone ==
    /\ last = Pending
    /\ call.fn = "get_agro_ecological_zone"
    /\ last' = [out |-> Return(get_agro_ecological_zone(call.lat, call.lon,
                                                        FAO_AEZ_GDF))]
    /\ UNCHANGED <<SPECIES_ALLOMETRIC, FAO_AEZ_GDF, call, process_vars>>

CallGetAezCoefficients ==
    /\ last = Pending
    /\ call.fn = "get_aez_coefficients"
    /\ last' = [out |-> Return(get_aez_coefficients(call.aez_identifier,
                                   call.species, SPECIES_ALLOMETRIC))]
    /\ UNCHANGED <<SPECIES_ALLOMETRIC, FAO_AEZ_GDF, call, process_vars>>

CallCalculate ==
    /\ last = Pending
    /\ call.fn = "calculate_co2_sequestered"
    /\ last' = calculate_co2_sequestered(call.dbh_cm, call.height_m,
                   call.rcd_cm, call.species, call.latitude, call.longitude,
                   SPECIES_ALLOMETRIC, FAO_AEZ_GDF)
    /\ UNCHANGED <<SPECIES_ALLOMETRIC, FAO_AEZ_GDF, call, process_vars>>

Next == CallGetAgroEcologicalZone \/ CallGetAezCoefficients \/ CallCalculate

Spec == Init /\ [][Next]_vars

\* ------------------------------------------------------------------------
\* Properties of get_aez_coefficients
\* ------------------------------------------------------------------------
Done == last # Pending

CoefficientsDone == Done /\ call.fn = "get_aez_coefficients"

CalculateDone == Done /\ call.fn = "calculate_co2_sequestered"

\* the species argument is a string whose trimmed, lowercased form is a key
SpeciesFound ==
    /\ IsStr(call.species)
    /\ Lower(Strip(call.species.s)) \in DOMAIN SPECIES_ALLOMETRIC

ZoneRecognised ==
    /\ IsStr(call.aez_identifier)
    /\ call.aez_identifier.s \in DOMAIN aez_table

Range(f) == {f[x] : x \in DOMAIN f}

\* C1: a species string whose trimmed, lowercased form is a key of the species
\* table gets that key's triple, whatever the zone (absent, unrecognised or a
\* key of the zone table).
C1_SpeciesWinsOverZone ==
    (CoefficientsDone /\ SpeciesFound)
        => last.out = Return(SPECIES_ALLOMETRIC[Lower(Strip(call.species.s))])

\* a call with a recognised zone and a species that matches a key only after
\* trimming and lowercasing
C1_Witness ==
    /\ CoefficientsDone /\ SpeciesFound /\ ZoneRecognised
    /\ call.species.s # Lower(Strip(call.species.s))
    /\ last.out.v # aez_table[call.aez_identifier.s]

\* C2: with the species absent (None or not a string) or its normalised form
\* not a key of the species table, a zone that is a key of the zone table
\* gets the zone's triple, for every content of the species table.
C2_ZoneFallback ==
    (CoefficientsDone /\ ~SpeciesFound /\ ZoneRecognised)
        => last.out = Return(aez_table[call.aez_identifier.s])

\* C3: with the species absent or not found and the zone absent or not a key
\* of the zone table, the result is the default triple (0.25, 2.0, 1.0).
C3_DefaultFallback ==
    (CoefficientsDone /\ ~SpeciesFound /\ ~ZoneRecognised)
        => last.out = Return(Coeffs(Rat(25, 100), Rat(2, 1), Rat(1, 1)))

\* C4: every call of the resolver returns a triple with a, b and c that is
\* wholly an entry of the species table, wholly an entry of the zone table,
\* or the default; fields of different levels are never combined.
C4_TotalNoMixing ==
    CoefficientsDone
        => /\ last.out.k = "return"
           /\ DOMAIN last.out.v = {"a", "b", "c"}
           /\ \/ last.out.v \in Range(SPECIES_ALLOMETRIC)
              \/ last.out.v \in Range(aez_table)
              \/ last.out.v = Coeffs(Rat(25, 100), Rat(2, 1), Rat(1, 1))

\* a call in which both the species and the zone have an entry, with
\* different coefficients
C4_Witness ==
    /\ CoefficientsDone /\ SpeciesFound /\ ZoneRecognised
    /\ SPECIES_ALLOMETRIC[Lower(Strip(call.species.s))].b
           # aez_table[call.aez_identifier.s].b
    /\ last.out.v \in Range(SPECIES_ALLOMETRIC)

\* ------------------------------------------------------------------------
\* Properties of calculate_co2_sequestered
\* ------------------------------------------------------------------------
\* step 1 runs to its end: it does not multiply a string rcd_cm by 0.8
DiameterResolved == ~(IsNone(call.dbh_cm) /\ IsStr(call.rcd_cm))

\* dbh_cm after step 1, with the factor 0.8 written out
ResolvedDbh ==
    IF IsNone(call.dbh_cm) /\ IsNumeric(call.rcd_cm)
    THEN Mul(call.rcd_cm, Rat(8, 10))
    ELSE call.dbh_cm

NonPositive(v) == IsNumeric(v) /\ v.n <= 0

Positive(v) == IsNumeric(v) /\ v.n > 0

\* C5: a call of the estimator either returns a number or raises ValueError
\* (InvalidInput), never another exception.
C5_OnlyInvalidInput ==
    CalculateDone
        => \/ last.out.k = "return" /\ IsNumeric(last.out.v)
           \/ last.out = Raise("ValueError")

\* C6: with dbh_cm and rcd_cm both None the estimator raises ValueError, for
\* every height, species and coordinates, and returns nothing.
C6_MissingDiameter ==
    (CalculateDone /\ IsNone(call.dbh_cm) /\ IsNone(call.rcd_cm))
        => last.out = Raise("ValueError")

\* both diameters absent, everything else valid
C6_Witness ==
    /\ CalculateDone /\ IsNone(call.dbh_cm) /\ IsNone(call.rcd_cm)
    /\ Positive(call.height_m) /\ SpeciesFound
    /\ IsNumeric(call.latitude) /\ IsNumeric(call.longitude)
    /\ last.out = Raise("ValueError")

\* C7: once the diameter is resolved, a dbh_cm or a height_m that is not
\* numeric (height_m None included) makes the estimator raise ValueError.
C7_NonNumericField ==
    (CalculateDone /\ DiameterResolved
        /\ (~IsNumeric(ResolvedDbh) \/ ~IsNumeric(call.height_m)))
        => last.out = Raise("ValueError")

\* a numeric non-positive diameter with height_m absent
C7_Witness ==
    /\ CalculateDone /\ DiameterResolved
    /\ NonPositive(ResolvedDbh) /\ IsNone(call.height_m)
    /\ last.out = Raise("ValueError")

\* C8 as stated: a resolved dbh_cm or a height_m that is numeric and <= 0
\* makes the estimator return 0.0 and raise nothing.
C8_ZeroFloorAsStated ==
    (CalculateDone /\ DiameterResolved
        /\ (NonPositive(ResolvedDbh) \/ NonPositive(call.height_m)))
        => last.out = Return(Rat(0, 1))

\* C8 amended: when the resolved dbh_cm and height_m are both numeric and
\* one of them is <= 0, the estimator returns exactly 0.0, for every species
\* and coordinates.
C8_ZeroFloor ==
    (CalculateDone /\ DiameterResolved
        /\ IsNumeric(ResolvedDbh) /\ IsNumeric(call.height_m)
        /\ (NonPositive(ResolvedDbh) \/ NonPositive(call.height_m)))
        => last.out = Return(Rat(0, 1))

\* a positive diameter, a negative height, a species with coefficients and
\* coordinates inside a recognised zone
C8_Witness ==
    /\ CalculateDone /\ Positive(ResolvedDbh) /\ NonPositive(call.height_m)
    /\ call.height_m.n < 0 /\ SpeciesFound
    /\ call.latitude = Rat(0, 1) /\ call.longitude = Rat(0, 1)
    /\ FAO_AEZ_GDF.rows # <<>>
    /\ last.out = Return(Rat(0, 1))

\* C9: with dbh_cm None and a numeric rcd_cm the estimator gives what it gives
\* for dbh_cm = 0.8 * rcd_cm and the other arguments unchanged.
C9_RcdFallback ==
    (CalculateDone /\ IsNone(call.dbh_cm) /\ IsNumeric(call.rcd_cm))
        => \A rcd \in {None, call.rcd_cm} :
              last.out = calculate_co2_sequestered(
                             Mul(Rat(8, 10), call.rcd_cm), call.height_m, rcd,
                             call.species, call.latitude, call.longitude,
                             SPECIES_ALLOMETRIC, FAO_AEZ_GDF).out

\* rcd_cm = 10 and height_m = 5: the result is that of dbh_cm = 8
C9_Witness ==
    /\ CalculateDone /\ IsNone(call.dbh_cm)
    /\ call.rcd_cm = Rat(10, 1) /\ call.height_m = Rat(5, 1)
    /\ last.out.k = "return" /\ Positive(last.out.v)
    /\ last.out = calculate_co2_sequestered(
                      Rat(8, 1), call.height_m, None, call.species,
                      call.latitude, call.longitude,
                      SPECIES_ALLOMETRIC, FAO_AEZ_GDF).out

\* C10: for positive dbh_cm and height_m and resolved coefficients (a, b, c)
\* the result is ((((a * dbh_cm^b * height_m^c) * 1.2) * 0.725) * 0.5) * 3.67;
\* for a = b = c = 1 and dbh_cm = height_m = 1 the stages are 1, 1.2, 0.87,
\* 0.435 and 1.59645.
C10_Pipeline ==
    (CalculateDone /\ DiameterResolved
        /\ Positive(ResolvedDbh) /\ Positive(call.height_m))
        => LET a == last.coeffs.a
               b == last.coeffs.b
               c == last.coeffs.c
               agb == Mul(Mul(a, Pow(ResolvedDbh, b)), Pow(call.height_m, c))
           IN /\ last.out = Return(Mul(Mul(Mul(Mul(agb, Rat(12, 10)),
                                Rat(725, 1000)), Rat(5, 10)), Rat(367, 100)))
              /\ (last.coeffs = Coeffs(Rat(1, 1), Rat(1, 1), Rat(1, 1))
                    /\ ResolvedDbh = Rat(1, 1) /\ call.height_m = Rat(1, 1))
                 => /\ last.stages.agb_kg = Rat(1, 1)
                    /\ last.stages.total_biomass = Rat(12, 10)
                    /\ last.stages.dry_weight = Rat(87, 100)
                    /\ last.stages.carbon_kg = Rat(435, 1000)
                    /\ last.stages.co2_kg = Rat(159645, 100000)
                    /\ last.out = Return(Rat(159645, 100000))

\* the call with a = b = c = 1 and dbh_cm = height_m = 1
C10_Witness ==
    /\ CalculateDone
    /\ call.dbh_cm = Rat(1, 1) /\ call.height_m = Rat(1, 1)
    /\ last.coeffs = Coeffs(Rat(1, 1), Rat(1, 1), Rat(1, 1))
    /\ last.out = Return(Rat(159645, 100000))

\* ------------------------------------------------------------------------
\* Order of positive numbers
\* ------------------------------------------------------------------------
\* n1/d1 < n2/d2 for positive fractions, common factors cancelled first
FracLess(n1, d1, n2, d2) ==
    LET g == GCD(n1, n2)
        h == GCD(d1, d2)
    IN (n1 \div g) * (d2 \div h) < (n2 \div g) * (d1 \div h)

FracLeq(n1, d1, n2, d2) == ~FracLess(n2, d2, n1, d1)

\* the base of the formal power of x, 1 when x is rational
PowerBase(x) == IF x.pw = <<>> THEN <<1, 1>> ELSE <<x.pw[1][1], x.pw[1][2]>>

\* x and y carry at most one formal power each, with one positive exponent
Comparable(x, y) ==
    /\ Len(x.pw) <= 1 /\ Len(y.pw) <= 1
    /\ (x.pw # <<>> /\ y.pw # <<>>)
          => (x.pw[1][3] = y.pw[1][3] /\ x.pw[1][4] = y.pw[1][4])
    /\ \A w \in {x, y} : w.pw # <<>> => (w.pw[1][1] > 0 /\ w.pw[1][3] > 0)

\* x < y for positive x = q * s^e and y = r * t^e with e > 0, decided when
\* q <= r and s <= t with one of them strict (t |-> t^e is increasing)
Less(x, y) ==
    LET s == PowerBase(x)
        t == PowerBase(y)
    IN /\ Comparable(x, y)
       /\ FracLeq(x.n, x.d, y.n, y.d)
       /\ FracLeq(s[1], s[2], t[1], t[2])
       /\ FracLess(x.n, x.d, y.n, y.d) \/ FracLess(s[1], s[2], t[1], t[2])

\* ------------------------------------------------------------------------
\* Properties of calculate_co2_sequestered: dependence on the arguments
\* ------------------------------------------------------------------------
\* diameters and heights a call is compared with
ProbeValues == {Rat(1, 2), Rat(3, 2), Rat(2, 1), Rat(8, 1), Rat(10, 1)}

PositiveCoeffs(t) == t.a.n > 0 /\ t.b.n > 0 /\ t.c.n > 0

\* co2 of the call in progress with dbh_cm and height_m replaced
Co2At(d, h) ==
    calculate_co2_sequestered(d, h, None, call.species, call.latitude,
        call.longitude, SPECIES_ALLOMETRIC, FAO_AEZ_GDF).out.v

\* C11: with species and coordinates fixed and coefficients a, b, c > 0, a
\* larger positive dbh_cm gives a strictly larger co2 at the same positive
\* height_m, and a larger positive height_m a strictly larger co2 at the same
\* dbh_cm.
C11_Monotonic ==
    (CalculateDone /\ DiameterResolved
        /\ Positive(ResolvedDbh) /\ Positive(call.height_m)
        /\ PositiveCoeffs(last.coeffs))
        => /\ \A d2 \in ProbeValues :
                FracLess(ResolvedDbh.n, ResolvedDbh.d, d2.n, d2.d)
                    => Less(last.out.v, Co2At(d2, call.height_m))
           /\ \A h2 \in ProbeValues :
                FracLess(call.height_m.n, call.height_m.d, h2.n, h2.d)
                    => Less(last.out.v, Co2At(ResolvedDbh, h2))

\* a call whose coefficients come from a zone with a non-integer exponent b,
\* compared with a larger diameter and a larger height
C11_Witness ==
    /\ CalculateDone /\ call.dbh_cm = Rat(8, 1) /\ call.height_m = Rat(5, 1)
    /\ last.aez_identifier = [k |-> "str", s |-> "Tropical Rainforest"]
    /\ last.coeffs = aez_table["Tropical Rainforest"]
    /\ Less(last.out.v, Co2At(Rat(10, 1), Rat(5, 1)))
    /\ Less(last.out.v, Co2At(Rat(8, 1), Rat(10, 1)))

\* the call in progress with its coordinates replaced
OutAt(latitude, longitude) ==
    calculate_co2_sequestered(call.dbh_cm, call.height_m, call.rcd_cm,
        call.species, latitude, longitude, SPECIES_ALLOMETRIC, FAO_AEZ_GDF).out

\* C12: for a species present in the species table and fixed dbh_cm and
\* height_m, the estimator gives the same co2 for every pair of coordinates
\* (absent, in any zone, in no zone).
C12_CoordinatesIrrelevant ==
    (CalculateDone /\ SpeciesFound)
        => \A latitude \in LatValues, longitude \in LonValues :
              last.out = OutAt(latitude, longitude)

\* a matching species measured inside a zone that has its own coefficients
C12_Witness ==
    /\ CalculateDone /\ SpeciesFound
    /\ Positive(call.dbh_cm) /\ Positive(call.height_m)
    /\ last.aez_identifier = [k |-> "str", s |-> "Tropical Rainforest"]
    /\ last.coeffs # aez_table["Tropical Rainforest"]
    /\ last.out = OutAt(None, None)

\* the coordinates lead to no zone name: one is absent or rejected by
\* float(), no polygon contains the point, or the frame cannot give a name
NoZoneAt(latitude, longitude) ==
    \/ IsNone(latitude) \/ IsNone(longitude)
    \/ Float(latitude).k = "raise" \/ Float(longitude).k = "raise"
    \/ ~FAO_AEZ_GDF.has_gez_name
    \/ \A i \in 1..Len(FAO_AEZ_GDF.rows) :
          <<Float(longitude).v.n, Float(latitude).v.n>>
              \notin FAO_AEZ_GDF.rows[i].geometry

ZoneDone == Done /\ call.fn = "get_agro_ecological_zone"

\* the rows of the loaded frame whose polygon contains the point of the call
Hits ==
    {i \in 1..Len(FAO_AEZ_GDF.rows) :
        <<call.lon.n, call.lat.n>> \in FAO_AEZ_GDF.rows[i].geometry}

\* C14: for a numeric point and a frame with the name column, the lookup
\* returns the name of the first row, in the frame's order, whose polygon
\* contains the point, and None when no polygon contains it.
C14_FirstMatch ==
    (ZoneDone /\ IsNumeric(call.lat) /\ IsNumeric(call.lon)
        /\ FAO_AEZ_GDF.has_gez_name)
        => IF Hits = {} THEN last.out = Return(None)
           ELSE \E i \in Hits :
                   /\ \A j \in Hits : i <= j
                   /\ last.out = Return([k |-> "str",
                                         s |-> FAO_AEZ_GDF.rows[i].gez_name])

\* a point inside two polygons: the name of the earlier row is returned
C14_Witness ==
    /\ ZoneDone /\ IsNumeric(call.lat) /\ IsNumeric(call.lon)
    /\ FAO_AEZ_GDF.has_gez_name /\ Cardinality(Hits) = 2
    /\ last.out = Return([k |-> "str", s |-> "Tropical Rainforest"])

\* ------------------------------------------------------------------------
\* Properties of the species table after a missing file
\* ------------------------------------------------------------------------
\* C17: when species_allometrics.csv is absent the species table is empty,
\* and every species string then gets the zone triple (recognised zone) or
\* the default triple.
C17_MissingSpeciesTable ==
    files.csv = Missing
        => /\ DOMAIN SPECIES_ALLOMETRIC = {}
           /\ (CoefficientsDone /\ IsStr(call.species))
                 => last.out = Return(IF ZoneRecognised
                                      THEN aez_table[call.aez_identifier.s]
                                      ELSE Coeffs(Rat(25, 100), Rat(2, 1),
                                                  Rat(1, 1)))

\* the file is absent and a species name that another table would hold is
\* resolved through a recognised zone
C17_Witness ==
    /\ files.csv = Missing /\ CoefficientsDone /\ ZoneRecognised
    /\ call.species = Str(<<"A", "a">>)
    /\ last.out = Return(aez_table[call.aez_identifier.s])

\* ------------------------------------------------------------------------
\* Properties of the value calculate_co2_sequestered returns
\* ------------------------------------------------------------------------
ValidTree ==
    CalculateDone /\ DiameterResolved
        /\ Positive(ResolvedDbh) /\ Positive(call.height_m)

\* C18 as stated: the result carries co2_kg together with the zone, the
\* coefficients and the intermediate values agb_kg, total_biomass_kg,
\* dry_weight_kg and carbon_kg.
C18_ResultCarriesDetails ==
    ValidTree
        => /\ last.out.k = "return"
           /\ {"co2_kg", "zone", "coefficients", "agb_kg", "total_biomass_kg",
               "dry_weight_kg", "carbon_kg"} \subseteq DOMAIN last.out.v

\* C18 amended: the result is the number co2_kg alone; the zone, the
\* coefficients and the intermediate values are locals of the call, the
\* coefficients being those resolved for that zone and species and each
\* stage following from the one before (total = agb * 1.2, dry = total *
\* 0.725, carbon = dry * 0.5, co2_kg = carbon * 3.67).
C18_ResultIsCo2Only ==
    ValidTree
        => /\ last.out.k = "return" /\ IsNumeric(last.out.v)
           /\ last.out.v = Mul(last.stages.carbon_kg, Rat(367, 100))
           /\ last.stages.carbon_kg = Mul(last.stages.dry_weight, Rat(5, 10))
           /\ last.stages.dry_weight
                  = Mul(last.stages.total_biomass, Rat(725, 1000))
           /\ last.stages.total_biomass = Mul(last.stages.agb_kg, Rat(12, 10))
           /\ last.stages.agb_kg
                  = Mul(Mul(last.coeffs.a, Pow(ResolvedDbh, last.coeffs.b)),
                        Pow(call.height_m, last.coeffs.c))
           /\ last.coeffs = get_aez_coefficients(last.aez_identifier,
                                call.species, SPECIES_ALLOMETRIC)
           /\ last.aez_identifier
                  = ResolveZone(call.latitude, call.longitude, FAO_AEZ_GDF)

\* a valid tree inside a recognised zone: a bare number comes back
C18_Witness ==
    /\ ValidTree /\ ~SpeciesFound
    /\ last.aez_identifier = [k |-> "str", s |-> "Tropical Rainforest"]
    /\ last.coeffs = aez_table["Tropical Rainforest"]
    /\ IsNumeric(last.out.v) /\ last.out.v = last.stages.co2_kg

\* ------------------------------------------------------------------------
\* Order of the checks, the arguments that take part, normalisation
\* ------------------------------------------------------------------------
\* C21: the type check comes before the non-positive short-circuit: with the
\* diameter resolved, when one of dbh_cm and height_m is numeric and <= 0 and
\* the other is not numeric (None included), the estimator raises ValueError
\* and does not return 0.0.
C21_TypeCheckFirst ==
    (CalculateDone /\ DiameterResolved
        /\ \/ NonPositive(ResolvedDbh) /\ ~IsNumeric(call.height_m)
           \/ NonPositive(call.height_m) /\ ~IsNumeric(ResolvedDbh))
        => /\ last.out = Raise("ValueError")
           /\ last.out # Return(Rat(0, 1))

\* a height of 0 with a dbh_cm that is a string
C21_Witness ==
    /\ CalculateDone /\ call.height_m = Rat(0, 1) /\ IsStr(call.dbh_cm)
    /\ last.out = Raise("ValueError")

\* C22: with dbh_cm not None the outcome is the same for every rcd_cm (None,
\* a number or a string); dbh_cm = 0 with a positive rcd_cm and a numeric
\* height returns 0.0 instead of falling back to the RCD.
C22_RcdIgnoredWhenDbhPresent ==
    (CalculateDone /\ ~IsNone(call.dbh_cm))
        => /\ \A rcd \in RcdValues :
                 last.out = calculate_co2_sequestered(
                                call.dbh_cm, call.height_m, rcd, call.species,
                                call.latitude, call.longitude,
                                SPECIES_ALLOMETRIC, FAO_AEZ_GDF).out
           /\ (call.dbh_cm = Rat(0, 1) /\ Positive(call.rcd_cm)
                  /\ IsNumeric(call.height_m))
                 => last.out = Return(Rat(0, 1))

\* dbh_cm = 0, rcd_cm = 10 and height_m = 5: the result is 0.0
C22_Witness ==
    /\ CalculateDone /\ call.dbh_cm = Rat(0, 1) /\ call.rcd_cm = Rat(10, 1)
    /\ call.height_m = Rat(5, 1) /\ last.out = Return(Rat(0, 1))

\* C23: with a latitude or a longitude of None (and valid positive
\* dimensions) the zone is None and the coefficients are those the resolver
\* gives without a zone: an entry of the species table or the default.
C23_NoZoneWithoutBothCoordinates ==
    (CalculateDone /\ DiameterResolved
        /\ Positive(ResolvedDbh) /\ Positive(call.height_m)
        /\ (IsNone(call.latitude) \/ IsNone(call.longitude)))
        => /\ last.aez_identifier = None
           /\ last.coeffs = get_aez_coefficients(None, call.species,
                                                 SPECIES_ALLOMETRIC)
           /\ \/ last.coeffs \in Range(SPECIES_ALLOMETRIC)
              \/ last.coeffs = Coeffs(Rat(25, 100), Rat(2, 1), Rat(1, 1))

\* the latitude is None, the longitude is 0 and the point (0, 0) lies in a
\* recognised zone of the loaded frame; the default triple was used
C23_Witness ==
    /\ CalculateDone /\ Positive(ResolvedDbh) /\ Positive(call.height_m)
    /\ IsNone(call.latitude) /\ call.longitude = Rat(0, 1)
    /\ get_agro_ecological_zone(Rat(0, 1), Rat(0, 1), FAO_AEZ_GDF)
           = [k |-> "str", s |-> "Tropical Rainforest"]
    /\ last.aez_identifier = None
    /\ last.coeffs = Coeffs(Rat(25, 100), Rat(2, 1), Rat(1, 1))

\* C24: every key of the species table is its own trimmed, lowercased form;
\* for every species string s the resolver gives for s what it gives for
\* the trimmed, lowercased s, and trimming and lowercasing twice changes
\* nothing.
C24_SpeciesNormalised ==
    /\ \A kk \in DOMAIN SPECIES_ALLOMETRIC : Lower(Strip(kk)) = kk
    /\ (CoefficientsDone /\ IsStr(call.species))
          => LET normal == Lower(Strip(call.species.s))
             IN /\ Lower(Strip(normal)) = normal
                /\ last.out = Return(get_aez_coefficients(call.aez_identifier,
                                         Str(normal), SPECIES_ALLOMETRIC))

\* the species " A" got the entry stored under "a"
C24_Witness ==
    /\ CoefficientsDone /\ call.species = Str(<<" ", "A">>)
    /\ <<"a">> \in DOMAIN SPECIES_ALLOMETRIC
    /\ last.out = Return(SPECIES_ALLOMETRIC[<<"a">>])
    /\ last.out.v # Coeffs(Rat(25, 100), Rat(2, 1), Rat(1, 1))

\* the six zone names of carbonfao.py, written out
ZoneNames ==
    {"Tropical Rainforest", "Tropical Moist Forest", "Tropical Dry Forest",
     "Temperate Forest", "Subtropical Northern Hemisphere",
     "Subtropical Southern Hemisphere"}

\* C25: a zone name that is not character for character one of the six zone
\* names (another case, surrounding whitespace, another wording) is not
\* recognised: when the species lookup finds nothing the result is the
\* default triple.
C25_ZoneMatchExact ==
    (CoefficientsDone /\ IsStr(call.aez_identifier)
        /\ call.aez_identifier.s \notin ZoneNames
        /\ (IF IsStr(call.species) THEN Lower(Strip(call.species.s)) ELSE <<>>)
               \notin DOMAIN SPECIES_ALLOMETRIC)
        => last.out = Return(Coeffs(Rat(25, 100), Rat(2, 1), Rat(1, 1)))

\* a zone name in lower case or with a trailing blank, no species
C25_Witness ==
    /\ CoefficientsDone /\ IsNone(call.species)
    /\ call.aez_identifier.k = "str"
    /\ call.aez_identifier.s \in {"temperate forest", "Temperate Forest "}
    /\ last.out = Return(Coeffs(Rat(25, 100), Rat(2, 1), Rat(1, 1)))

\* C26: every triple the resolver returns has a > 0, b > 0 and c > 0 for
\* every species table that loads; the estimator never returns a negative
\* number and returns a positive one for positive dbh_cm and height_m.
C26_PositiveCoefficients ==
    /\ CoefficientsDone
          => /\ last.out.v.a.n > 0 /\ last.out.v.b.n > 0 /\ last.out.v.c.n > 0
    /\ (CalculateDone /\ last.out.k = "return") => last.out.v.n >= 0
    /\ (CalculateDone /\ DiameterResolved
          /\ Positive(ResolvedDbh) /\ Positive(call.height_m))
          => last.out.k = "return" /\ last.out.v.n > 0

\* ------------------------------------------------------------------------
\* The process from its start: imports of carbonfao and kobo_monitoring,
\* then zone lookups for as long as the process runs
\* ------------------------------------------------------------------------
\* a file that is there but cannot be read as a shapefile / as the CSV
Malformed == [k |-> "malformed"]

\* gpd.read_file(path)
read_file(shp) ==
    IF shp.k = "file" THEN Return(shp.gdf) ELSE Raise("DataSourceError")

\* pd.read_csv(path) followed by the dict comprehension over its rows
read_csv(csv) ==
    IF csv.k = "file" THEN Return(SpeciesDict(csv.rows))
    ELSE IF csv.k = "missing" THEN Raise("FileNotFoundError")
    ELSE Raise("ParserError")

\* carbonfao's zone load with no try/except around it
carbonfao_FAO_AEZ_GDF_unguarded(shp) == read_file(shp)

\* carbonfao.py: try: read_file ... except Exception: empty GeoDataFrame
carbonfao_FAO_AEZ_GDF(shp) ==
    LET r == read_file(shp)
    IN IF r.k = "raise" THEN Return(Gdf(<<>>, FALSE)) ELSE r

\* carbonfao.py: try: read_csv ... except FileNotFoundError: {}
carbonfao_SPECIES_ALLOMETRIC(csv) ==
    LET r == read_csv(csv)
    IN IF r.k = "raise" /\ r.exc = "FileNotFoundError"
       THEN Return(SpeciesDict(<<>>))
       ELSE r

\* kobo_monitoring.py: FAO_AEZ_GDF = gpd.read_file(...), unguarded
kobo_monitoring_FAO_AEZ_GDF(shp) == read_file(shp)

\* kobo_monitoring.py: read_csv and the dict comprehension, unguarded
kobo_monitoring_SPECIES_ALLOMETRIC(csv) == read_csv(csv)

Crashed(module, line, exc) ==
    [k |-> "crashed", module |-> module, line |-> line, exc |-> exc]

NoCall == [fn |-> "none"]

LifetimeInit ==
    /\ files \in [shp : ShapeFiles \cup {Malformed},
                  csv : CsvFiles \cup {Malformed}]
    /\ SPECIES_ALLOMETRIC = NotImported
    /\ FAO_AEZ_GDF = NotImported
    /\ call = NoCall
    /\ last = Pending
    /\ modules = {}
    /\ loads = [shp |-> 0, csv |-> 0]
    /\ process = Running
    /\ kobo_monitoring = NotImported
    /\ threads = NoThreads
    /\ DbClosed

\* the module body of carbonfao: where it ends and what it has bound
CarbonfaoBody ==
    LET gdf == carbonfao_FAO_AEZ_GDF(files.shp)
        species == carbonfao_SPECIES_ALLOMETRIC(files.csv)
    IN IF gdf.k = "raise"
       THEN [end |-> Crashed("carbonfao", 19, gdf.exc),
             reads |-> [shp |-> 1, csv |-> 0]]
       ELSE IF species.k = "raise"
       THEN [end |-> Crashed("carbonfao", 31, species.exc),
             reads |-> [shp |-> 1, csv |-> 1]]
       ELSE [end |-> Running, reads |-> [shp |-> 1, csv |-> 1],
             FAO_AEZ_GDF |-> gdf.v, SPECIES_ALLOMETRIC |-> species.v]

\* the module body of kobo_monitoring after its import of carbonfao
KoboMonitoringBody ==
    LET gdf == kobo_monitoring_FAO_AEZ_GDF(files.shp)
        species == kobo_monitoring_SPECIES_ALLOMETRIC(files.csv)
    IN IF gdf.k = "raise"
       THEN [end |-> Crashed("kobo_monitoring", 32, gdf.exc),
             reads |-> [shp |-> 1, csv |-> 0]]
       ELSE IF species.k = "raise"
       THEN [end |-> Crashed("kobo_monitoring", 36, species.exc),
             reads |-> [shp |-> 1, csv |-> 1]]
       ELSE [end |-> Running, reads |-> [shp |-> 1, csv |-> 1],
             FAO_AEZ_GDF |-> gdf.v, SPECIES_ALLOMETRIC |-> species.v]

AddReads(a, b) == [shp |-> a.shp + b.shp, csv |-> a.csv + b.csv]

\* import carbonfao
ImportCarbonfao ==
    /\ process = Running
    /\ "carbonfao" \notin modules
    /\ LET body == CarbonfaoBody
       IN /\ loads' = AddReads(loads, body.reads)
          /\ process' = body.end
          /\ IF body.end = Running
             THEN /\ modules' = modules \cup {"carbonfao"}
                  /\ FAO_AEZ_GDF' = body.FAO_AEZ_GDF
                  /\ SPECIES_ALLOMETRIC' = body.SPECIES_ALLOMETRIC
             ELSE UNCHANGED <<modules, FAO_AEZ_GDF, SPECIES_ALLOMETRIC>>
    /\ UNCHANGED <<call, last, files, kobo_monitoring, threads, db_vars>>

\* import kobo_monitoring: its line 14 imports carbonfao first unless that
\* module is already there, then its own two loads run
ImportKoboMonitoring ==
    /\ process = Running
    /\ "kobo_monitoring" \notin modules
    /\ LET nested == "carbonfao" \notin modules
           first == CarbonfaoBody
           body == KoboMonitoringBody
       IN IF nested /\ first.end # Running
          THEN /\ loads' = AddReads(loads, first.reads)
               /\ process' = first.end
               /\ UNCHANGED <<modules, FAO_AEZ_GDF, SPECIES_ALLOMETRIC,
                              kobo_monitoring>>
          ELSE /\ loads' = AddReads(IF nested THEN AddReads(loads, first.reads)
                                    ELSE loads, body.reads)
               /\ process' = body.end
               /\ FAO_AEZ_GDF' = IF nested THEN first.FAO_AEZ_GDF
                                 ELSE FAO_AEZ_GDF
               /\ SPECIES_ALLOMETRIC' = IF nested THEN first.SPECIES_ALLOMETRIC
                                        ELSE SPECIES_ALLOMETRIC
               /\ IF body.end = Running
                  THEN /\ modules' = modules \cup {"carbonfao", "kobo_monitoring"}
                       /\ kobo_monitoring' =
                              [FAO_AEZ_GDF |-> body.FAO_AEZ_GDF,
                               SPECIES_ALLOMETRIC |-> body.SPECIES_ALLOMETRIC]
                  ELSE /\ modules' = modules \cup {"carbonfao"}
                       /\ UNCHANGED kobo_monitoring
    /\ UNCHANGED <<call, last, files, threads, db_vars>>

\* carbonfao.get_agro_ecological_zone(lat, lon), any number of times
LookupZone ==
    /\ process = Running
    /\ "carbonfao" \in modules
    /\ \E lat \in LatValues, lon \in LonValues :
          /\ call' = [fn |-> "get_agro_ecological_zone", lat |-> lat, lon |-> lon]
          /\ last' = [out |-> Return(get_agro_ecological_zone(lat, lon,
                                                              FAO_AEZ_GDF))]
    /\ UNCHANGED <<SPECIES_ALLOMETRIC, FAO_AEZ_GDF, process_vars>>

\* the names bound in module carbonfao once its body has run
CarbonfaoNames ==
    {"os", "gpd", "pd", "Point", "Path", "BASE_DIR", "AEZ_SHAPEFILE_PATH",
     "FAO_AEZ_GDF", "SPECIES_CSV_PATH", "SPECIES_ALLOMETRIC_DF",
     "SPECIES_ALLOMETRIC", "get_agro_ecological_zone", "get_aez_coefficients",
     "calculate_co2_sequestered"}

\* from carbonfao import ... at line 2 of monitoring_app.py
MonitoringAppImports ==
    {"calculate_co2_sequestered", "get_ecological_zone",
     "get_zone_coefficients"}

\* lines 14-34 of monitoring_app.py: the estimate, then the zone, the
\* coefficients and the stages computed again in the script.  The script
\* asks for the zone and the coefficients under the names get_ecological_zone
\* and get_zone_coefficients; carbonfao's two lookups stand for them here.
Breakdown(dbh, height, species, latitude, longitude, table, gdf) ==
    IF ~LeqZero(dbh) /\ ~LeqZero(height)
    THEN LET co2 == calculate_co2_sequestered(dbh, height, None, species,
                        latitude, longitude, table, gdf).out
             zone == get_agro_ecological_zone(latitude, longitude, gdf)
             coeffs == get_aez_coefficients(zone, species, table)
             agb == Mul(Mul(coeffs.a, Pow(dbh, coeffs.b)),
                        Pow(height, coeffs.c))
             total_biomass == Mul(agb, Rat(12, 10))
             dry_weight == Mul(total_biomass, Rat(725, 1000))
             carbon == Mul(dry_weight, Rat(5, 10))
             co2_check == Mul(carbon, Rat(367, 100))
         IN [shown |-> TRUE, co2 |-> co2, zone |-> zone, coeffs |-> coeffs,
             co2_check |-> co2_check]
    ELSE [shown |-> FALSE]

\* one run of the script monitoring_app.py: its import of carbonfao (the
\* module body first, unless it is already imported, then the three names),
\* then the breakdown for the values typed into the form
RunMonitoringApp ==
    /\ process = Running
    /\ "monitoring_app" \notin modules
    /\ \E dbh \in {Rat(0, 1), Rat(8, 1)}, species \in {Str(<<>>), Str(<<"a">>)},
          latitude \in {Rat(0, 1), Rat(1, 1)} :
          LET height == Rat(5, 1)
              longitude == Rat(0, 1)
              nested == "carbonfao" \notin modules
              first == CarbonfaoBody
          IN IF nested /\ first.end # Running
             THEN /\ loads' = AddReads(loads, first.reads)
                  /\ process' = first.end
                  /\ UNCHANGED <<modules, FAO_AEZ_GDF, SPECIES_ALLOMETRIC,
                                 call, last>>
             ELSE /\ loads' = IF nested THEN AddReads(loads, first.reads)
                              ELSE loads
                  /\ FAO_AEZ_GDF' = IF nested THEN first.FAO_AEZ_GDF
                                    ELSE FAO_AEZ_GDF
                  /\ SPECIES_ALLOMETRIC' =
                         IF nested THEN first.SPECIES_ALLOMETRIC
                         ELSE SPECIES_ALLOMETRIC
                  /\ IF MonitoringAppImports \subseteq CarbonfaoNames
                     THEN /\ modules' = modules \cup {"carbonfao", "monitoring_app"}
                          /\ process' = Running
                          /\ call' = [fn |-> "monitoring_app", dbh |-> dbh,
                                      height |-> height, species |-> species,
                                      latitude |-> latitude,
                                      longitude |-> longitude]
                          /\ last' = Breakdown(dbh, height, species, latitude,
                                               longitude, SPECIES_ALLOMETRIC',
                                               FAO_AEZ_GDF')
                     ELSE /\ modules' = modules \cup {"carbonfao"}
                          /\ process' = Crashed("monitoring_app", 2, "ImportError")
                          /\ UNCHANGED <<call, last>>
    /\ UNCHANGED <<files, kobo_monitoring, threads, db_vars>>

LifetimeNext ==
    ImportCarbonfao \/ ImportKoboMonitoring \/ LookupZone \/ RunMonitoringApp

Lifetime == LifetimeInit /\ [][LifetimeNext]_vars

\* ------------------------------------------------------------------------
\* Properties of the reference-data load
\* ------------------------------------------------------------------------
ZoneFileFails == files.shp.k # "file"

SpeciesFileFails == files.csv.k # "file"

\* C15: when the zone geometry file cannot be read, the load in carbonfao
\* does not end the process, and from the import of carbonfao on every call
\* of its get_agro_ecological_zone returns None, whatever the point and
\* however many calls and imports came before.
C15_ZoneLoadFailurePermanent ==
    ZoneFileFails
        => /\ process.k = "crashed"
                 => ~(process.module = "carbonfao" /\ process.line = 19)
           /\ "carbonfao" \in modules
                 => /\ FAO_AEZ_GDF.rows = <<>>
                    /\ call.fn = "get_agro_ecological_zone"
                          => last.out = Return(None)

\* the shapefile is missing, carbonfao is imported, the process runs, and a
\* lookup of a point that a loaded frame would place in a zone gave None
C15_Witness ==
    /\ files.shp = Missing /\ "carbonfao" \in modules /\ process = Running
    /\ call.fn = "get_agro_ecological_zone"
    /\ call.lat = Rat(0, 1) /\ call.lon = Rat(0, 1)
    /\ last.out = Return(None)

\* C16: no failure to load the zone geometry file or the species table ends
\* the process: in every module that loads them startup completes, with the
\* table of a file that could not be loaded empty.
C16_LoadFailuresNonFatal ==
    /\ process.k = "crashed" => process.module = "monitoring_app"
    /\ ("carbonfao" \in modules /\ ZoneFileFails) => FAO_AEZ_GDF.rows = <<>>
    /\ ("carbonfao" \in modules /\ SpeciesFileFails)
          => DOMAIN SPECIES_ALLOMETRIC = {}
    /\ ("kobo_monitoring" \in modules /\ ZoneFileFails)
          => kobo_monitoring.FAO_AEZ_GDF.rows = <<>>
    /\ ("kobo_monitoring" \in modules /\ SpeciesFileFails)
          => DOMAIN kobo_monitoring.SPECIES_ALLOMETRIC = {}

\* C20: with both reference files readable, each is loaded exactly once in
\* the life of the process, whichever modules are imported: once any module
\* is imported each file has been read once, and never a second time.
C20_LoadedOnce ==
    (~ZoneFileFails /\ ~SpeciesFileFails)
        => /\ loads.shp <= 1 /\ loads.csv <= 1
           /\ modules # {} => (loads.shp = 1 /\ loads.csv = 1)

\* latitude and longitude of a row of trees: REAL columns, NULL allowed
TreeCoordinates == {None, Rat(999, 1)} \cup {Rat(i, 1) : i \in 0..GridMax}

\* C27: a run of monitoring_app gets as far as its breakdown, the co2 the
\* breakdown computes step by step equals the one calculate_co2_sequestered
\* returned for the same inputs, and the zone lookup of kobo_monitoring
\* gives for every coordinates of a tree the zone carbonfao's lookup gives.
C27_MonitoringAgrees ==
    /\ ~(process.k = "crashed" /\ process.module = "monitoring_app")
    /\ (call.fn = "monitoring_app" /\ last.shown)
          => last.co2 = Return(last.co2_check)
    /\ "kobo_monitoring" \in modules
          => \A lat \in TreeCoordinates, lon \in TreeCoordinates :
                kobo_monitoring_get_agro_ecological_zone(
                    lat, lon, kobo_monitoring.FAO_AEZ_GDF)
                  = get_agro_ecological_zone(lat, lon, FAO_AEZ_GDF)

\* ------------------------------------------------------------------------
\* Concurrent calls: each call advances one read of the shared tables at a
\* time, interleaved with the steps of the other calls
\* ------------------------------------------------------------------------
Threads == 1..MaxThreads

\* the species table after the caching of a resolved triple under its key
TableAfterLookup_cached(table, species_key, coeffs) ==
    [kk \in DOMAIN table \cup {species_key} |->
        IF kk = species_key THEN coeffs ELSE table[kk]]

\* the species table after a lookup: get_aez_coefficients only reads it
TableAfterLookup(table, species_key, coeffs) == table

ConcurrentCalls ==
    [fn : {"calculate_co2_sequestered"}, dbh_cm : {Rat(8, 1)},
     height_m : {Rat(0, 1), Rat(5, 1)}, rcd_cm : {None},
     species : {None, Str(<<"A">>)},
     latitude : {None, Rat(0, 1)}, longitude : {Rat(0, 1)}]
    \cup [fn : {"get_aez_coefficients"},
          aez_identifier : {None, [k |-> "str", s |-> "Tropical Rainforest"]},
          species : {None, Str(<<"A">>)}]
    \cup [fn : {"get_agro_ecological_zone"},
          lat : {Rat(0, 1), Rat(1, 1)}, lon : {Rat(0, 1)}]

\* a call at its first statement
Started(c) ==
    [args |-> c,
     pc |-> CASE c.fn = "calculate_co2_sequestered" -> "validate"
              [] c.fn = "get_aez_coefficients" -> "test"
              [] c.fn = "get_agro_ecological_zone" -> "zone",
     dbh_cm |-> None,
     aez_identifier |-> IF c.fn = "get_aez_coefficients"
                        THEN c.aez_identifier ELSE None,
     found |-> FALSE, coeffs |-> None, out |-> Pending]

ConcurrentInit ==
    /\ files \in [shp : ShapeFiles, csv : CsvFiles]
    /\ SPECIES_ALLOMETRIC = LoadSpecies(files.csv)
    /\ FAO_AEZ_GDF = LoadGdf(files.shp)
    /\ call = NoCall
    /\ last = Pending
    /\ modules = {"carbonfao"}
    /\ loads = [shp |-> 1, csv |-> 1]
    /\ process = Running
    /\ kobo_monitoring = NotImported
    /\ threads \in [Threads -> {Started(c) : c \in ConcurrentCalls}]
    /\ DbClosed

Finished(th, out) == [th EXCEPT !.pc = "done", !.out = out]

\* lines 115-123 of calculate_co2_sequestered: arguments only
StepValidate(t) ==
    /\ threads[t].pc = "validate"
    /\ LET th == threads[t]
           resolved == ResolveDbh(th.args.dbh_cm, th.args.rcd_cm)
       IN threads' = [threads EXCEPT ![t] =
              IF resolved.k = "raise" THEN Finished(th, resolved)
              ELSE IF ~IsNumeric(resolved.v) \/ ~IsNumeric(th.args.height_m)
              THEN Finished(th, Raise("ValueError"))
              ELSE IF LeqZero(resolved.v) \/ LeqZero(th.args.height_m)
              THEN Finished(th, Return(Rat(0, 1)))
              ELSE [th EXCEPT !.pc = "zone", !.dbh_cm = resolved.v]]
    /\ UNCHANGED <<SPECIES_ALLOMETRIC, FAO_AEZ_GDF, call, last, files, modules,
                   loads, process, kobo_monitoring, db_vars>>

\* the zone lookup: reads FAO_AEZ_GDF
StepZone(t) ==
    /\ threads[t].pc = "zone"
    /\ LET th == threads[t]
       IN threads' = [threads EXCEPT ![t] =
              IF th.args.fn = "get_agro_ecological_zone"
              THEN Finished(th, Return(get_agro_ecological_zone(
                                    th.args.lat, th.args.lon, FAO_AEZ_GDF)))
              ELSE [th EXCEPT !.pc = "test",
                       !.aez_identifier = ResolveZone(th.args.latitude,
                                              th.args.longitude, FAO_AEZ_GDF)]]
    /\ UNCHANGED <<SPECIES_ALLOMETRIC, FAO_AEZ_GDF, call, last, files, modules,
                   loads, process, kobo_monitoring, db_vars>>

\* species_key in SPECIES_ALLOMETRIC: the first read of the species table
StepTest(t) ==
    /\ threads[t].pc = "test"
    /\ LET th == threads[t]
       IN threads' = [threads EXCEPT ![t] =
              [th EXCEPT !.pc = "fetch",
                         !.found = SpeciesKey(th.args.species)
                                       \in DOMAIN SPECIES_ALLOMETRIC]]
    /\ UNCHANGED <<SPECIES_ALLOMETRIC, FAO_AEZ_GDF, call, last, files, modules,
                   loads, process, kobo_monitoring, db_vars>>

\* the return statement taken: SPECIES_ALLOMETRIC[species_key] (the second
\* read, KeyError if the key is gone), the zone entry, or the default
StepFetch(t) ==
    /\ threads[t].pc = "fetch"
    /\ LET th == threads[t]
           species_key == SpeciesKey(th.args.species)
           res == IF th.found
                  THEN IF species_key \in DOMAIN SPECIES_ALLOMETRIC
                       THEN Return(SPECIES_ALLOMETRIC[species_key])
                       ELSE Raise("KeyError")
                  ELSE IF InAezTable(th.aez_identifier)
                  THEN Return(aez_table[th.aez_identifier.s])
                  ELSE Return(DefaultCoeffs)
       IN /\ threads' = [threads EXCEPT ![t] =
                 IF res.k = "raise" \/ th.args.fn = "get_aez_coefficients"
                 THEN Finished(th, res)
                 ELSE [th EXCEPT !.pc = "pipeline", !.coeffs = res.v]]
          /\ SPECIES_ALLOMETRIC' =
                 IF res.k = "raise" THEN SPECIES_ALLOMETRIC
                 ELSE TableAfterLookup(SPECIES_ALLOMETRIC, species_key, res.v)
    /\ UNCHANGED <<FAO_AEZ_GDF, call, last, files, modules, loads, process,
                   kobo_monitoring, db_vars>>

\* lines 135-159: locals only
StepPipeline(t) ==
    /\ threads[t].pc = "pipeline"
    /\ LET th == threads[t]
       IN threads' = [threads EXCEPT ![t] =
              Finished(th, Return(Pipeline(th.dbh_cm, th.args.height_m,
                                           th.coeffs).co2_kg))]
    /\ UNCHANGED <<SPECIES_ALLOMETRIC, FAO_AEZ_GDF, call, last, files, modules,
                   loads, process, kobo_monitoring, db_vars>>

ConcurrentNext ==
    \E t \in Threads :
        StepValidate(t) \/ StepZone(t) \/ StepTest(t) \/ StepFetch(t)
            \/ StepPipeline(t)

Concurrent == ConcurrentInit /\ [][ConcurrentNext]_vars

\* what the call c returns when nothing else runs, on the tables as loaded
Alone(c) ==
    LET table == LoadSpecies(files.csv)
        gdf == LoadGdf(files.shp)
    IN CASE c.fn = "calculate_co2_sequestered" ->
                calculate_co2_sequestered(c.dbh_cm, c.height_m, c.rcd_cm,
                    c.species, c.latitude, c.longitude, table, gdf).out
         [] c.fn = "get_aez_coefficients" ->
                Return(get_aez_coefficients(c.aez_identifier, c.species, table))
         [] c.fn = "get_agro_ecological_zone" ->
                Return(get_agro_ecological_zone(c.lat, c.lon, gdf))

\* C19: no step of a call changes the species table or the zone frame, and
\* under every interleaving each finished call has returned what it returns
\* when it runs alone.
C19_CallsIndependent ==
    /\ SPECIES_ALLOMETRIC = LoadSpecies(files.csv)
    /\ FAO_AEZ_GDF = LoadGdf(files.shp)
    /\ \A t \in Threads :
          threads[t].pc = "done" => threads[t].out = Alone(threads[t].args)

\* two estimates of one species not in the table, one with coordinates in a
\* zone and one without, have both finished, the second started its table
\* lookup after the first had ended
C19_Witness ==
    \E t, u \in Threads :
        /\ t # u
        /\ threads[t].pc = "done" /\ threads[u].pc = "done"
        /\ threads[t].args.fn = "calculate_co2_sequestered"
        /\ threads[u].args.fn = "calculate_co2_sequestered"
        /\ threads[t].args.species = threads[u].args.species
        /\ SpeciesKey(threads[t].args.species) \notin DOMAIN SPECIES_ALLOMETRIC
        /\ threads[t].coeffs = aez_table["Tropical Rainforest"]
        /\ threads[u].coeffs = DefaultCoeffs
        /\ threads[t].out # threads[u].out

\* ------------------------------------------------------------------------
\* process_submission of kobo_monitoring.py: each call opens a connection
\* of its own for every read and every write of the two databases, so the
\* calls of concurrent sessions interleave between those accesses
\* ------------------------------------------------------------------------
Bool(b) == [k |-> "bool", b |-> b]

\* bool(v) for None, a number or a string
Truthy(v) ==
    CASE v.k = "none" -> FALSE
      [] v.k = "num" -> v.n # 0
      [] v.k = "str" -> v.s # <<>>

\* the conversion handing back what it could not convert
try_float_passthrough(val) ==
    LET r == Float(val)
    IN IF r.k = "return" THEN r.v ELSE val

\* try: return float(val) / except: return None
try_float(val) ==
    LET r == Float(val)
    IN IF r.k = "return" THEN r.v ELSE None

Tree(scientific_name, latitude, longitude) ==
    [scientific_name |-> scientific_name, latitude |-> latitude,
     longitude |-> longitude, dbh_cm |-> None, height_m |-> None,
     co2_kg |-> None, last_monitored_at |-> None]

\* the rows of table trees the model starts with
InitialTrees ==
    [tid \in {<<"T", "1">>, <<"T", "2">>} |->
        IF tid = <<"T", "1">>
        THEN Tree(Str(<<"a">>), Rat(0, 1), Rat(0, 1))
        ELSE Tree(None, None, None)]

\* a Kobo submission: a key that is not there reads as None
Submission(id, tree_id, dbh_cm, rcd_cm, height_m) ==
    [_id |-> id, tree_id |-> tree_id, dbh_cm |-> dbh_cm, rcd_cm |-> rcd_cm,
     height_m |-> height_m]

\* the submissions concurrent sessions work on: two measurements of tree T1,
\* one of tree T2 and one of a tree that is not in table trees
FewSubmissions ==
    { Submission(Rat(1, 1), Str(<<"T", "1">>), Str(<<"8">>), None, Str(<<"5">>)),
      Submission(Rat(2, 1), Str(<<"T", "1">>), None, Str(<<"1", "0">>),
                 Str(<<"5">>)),
      Submission(Rat(3, 1), Str(<<"T", "2">>), Str(<<"0">>), None, Str(<<"5">>)),
      Submission(Rat(4, 1), Str(<<"T", "9">>), Str(<<"8">>), None, Str(<<"5">>)) }

\* every content of one submission: each measurement absent, unparsable,
\* zero or positive
AllSubmissions ==
    [_id : {None, Rat(1, 1)},
     tree_id : {None, Str(<<"T", "1">>), Str(<<"T", "2">>), Str(<<"T", "9">>)},
     dbh_cm : {None, Str(<<"x">>), Str(<<"0">>), Str(<<"8">>)},
     rcd_cm : {None, Str(<<"x">>), Str(<<"0">>), Str(<<"1", "0">>)},
     height_m : {None, Str(<<"x">>), Str(<<"0">>), Str(<<"5">>)}]

SubmissionIds == {Rat(i, 1) : i \in 1..4}

\* a call of process_submission at its first statement
StartedSubmission(submission) ==
    [args |-> submission, pc |-> "check", dbh_cm |-> None, rcd_cm |-> None,
     height_m |-> None, co2_kg |-> None, co2_details |-> None,
     agro_ecological_zone |-> None, row |-> None, out |-> Pending]

NoHistory ==
    [monitoring |-> [i \in SubmissionIds |-> 0],
     inventory |-> [i \in SubmissionIds |-> 0],
     saved |-> {},
     overlapped |-> FALSE]

\* kobo_monitoring is imported (both files were readable), the databases
\* hold the initial trees and no monitoring record
MonitoringState ==
    /\ files \in [shp : ShapeFiles \ {Missing}, csv : CsvFiles \ {Missing}]
    /\ SPECIES_ALLOMETRIC = LoadSpecies(files.csv)
    /\ FAO_AEZ_GDF = LoadGdf(files.shp)
    /\ kobo_monitoring =
           [FAO_AEZ_GDF |-> kobo_monitoring_FAO_AEZ_GDF(files.shp).v,
            SPECIES_ALLOMETRIC |-> kobo_monitoring_SPECIES_ALLOMETRIC(files.csv).v]
    /\ call = NoCall
    /\ last = Pending
    /\ modules = {"carbonfao", "kobo_monitoring"}
    /\ loads = [shp |-> 2, csv |-> 2]
    /\ process = Running
    /\ trees = InitialTrees
    /\ tree_monitoring = << >>
    /\ processed_submissions = {}
    /\ today = 1
    /\ history = NoHistory

\* MaxThreads sessions, each about to process one of the few submissions
MonitoringInit ==
    /\ MonitoringState
    /\ threads \in [Threads -> {StartedSubmission(sub) : sub \in FewSubmissions}]

\* one session about to process one submission of any content
SubmissionInit ==
    /\ MonitoringState
    /\ threads \in [{1} -> {StartedSubmission(sub) : sub \in AllSubmissions}]

InProgress(th) == th.pc \notin {"check", "done"}

\* lines 239-244: the two ids, then is_submission_processed
ProcessSubmissionCheck ==
    \E t \in DOMAIN threads :
        /\ threads[t].pc = "check"
        /\ LET th == threads[t]
           IN threads' = [threads EXCEPT ![t] =
                  IF ~Truthy(th.args.tree_id) \/ ~Truthy(th.args._id)
                  THEN Finished(th, Bool(FALSE))
                  ELSE IF th.args._id \in processed_submissions
                  THEN Finished(th, Bool(TRUE))
                  ELSE [th EXCEPT !.pc = "measure"]]
        /\ history' = [history EXCEPT !.overlapped =
                          @ \/ \E u \in DOMAIN threads \ {t} : InProgress(threads[u])]
        /\ UNCHANGED <<module_vars, trees, tree_monitoring, processed_submissions,
                       today>>

\* lines 246-272: get_tree_data, the three conversions, the zone lookup of
\* kobo_monitoring and the estimate; an exception of the estimator ends
\* the call
ProcessSubmissionMeasure ==
    \E t \in DOMAIN threads :
        /\ threads[t].pc = "measure"
        /\ LET th == threads[t]
               tid == th.args.tree_id.s
               dbh_cm == try_float(th.args.dbh_cm)
               rcd_cm == try_float(th.args.rcd_cm)
               height_m == try_float(th.args.height_m)
               diameter_cm == IF Truthy(dbh_cm) THEN dbh_cm ELSE rcd_cm
               estimated == Truthy(diameter_cm) /\ Truthy(height_m)
           IN threads' = [threads EXCEPT ![t] =
                  IF tid \notin DOMAIN trees THEN Finished(th, Bool(FALSE))
                  ELSE LET tree_data == trees[tid]
                           agro_ecological_zone ==
                               kobo_monitoring_get_agro_ecological_zone(
                                   tree_data.latitude, tree_data.longitude,
                                   kobo_monitoring.FAO_AEZ_GDF)
                           co2 == IF estimated
                                  THEN calculate_co2_sequestered(dbh_cm, height_m,
                                           rcd_cm, tree_data.scientific_name,
                                           tree_data.latitude, tree_data.longitude,
                                           SPECIES_ALLOMETRIC, FAO_AEZ_GDF).out
                                  ELSE Return(None)
                       IN IF co2.k = "raise" THEN Finished(th, co2)
                          ELSE [th EXCEPT
                                   !.pc = "select",
                                   !.dbh_cm = dbh_cm, !.rcd_cm = rcd_cm,
                                   !.height_m = height_m, !.co2_kg = co2.v,
                                   !.agro_ecological_zone = agro_ecological_zone,
                                   !.co2_details =
                                       IF estimated
                                       THEN [dbh_cm |-> dbh_cm, rcd_cm |-> rcd_cm,
                                             height_m |-> height_m,
                                             species |-> tree_data.scientific_name,
                                             agro_ecological_zone |->
                                                 agro_ecological_zone]
                                       ELSE << >>]]
        /\ UNCHANGED <<module_vars, db_vars>>

\* save_monitoring_record, lines 194-203: today's row of the tree, if any
SaveMonitoringRecordSelect ==
    \E t \in DOMAIN threads :
        /\ threads[t].pc = "select"
        /\ LET th == threads[t]
               matching == {i \in 1..Len(tree_monitoring) :
                               /\ tree_monitoring[i].tree_id = th.args.tree_id
                               /\ tree_monitoring[i].monitored_at = today}
               first == CHOOSE i \in matching : \A j \in matching : i <= j
           IN threads' = [threads EXCEPT ![t] =
                  [th EXCEPT !.pc = "write",
                             !.row = IF matching = {} THEN None
                                     ELSE [k |-> "row", id |-> first,
                                           monitor_count |->
                                               tree_monitoring[first].monitor_count]]]
        /\ UNCHANGED <<module_vars, db_vars>>

\* save_monitoring_record, lines 204-219: the UPDATE of the row that was
\* selected (every column but tree_id and submission_id, the count read
\* by the SELECT plus one) or the INSERT of a new row
SaveMonitoringRecordWrite ==
    \E t \in DOMAIN threads :
        /\ threads[t].pc = "write"
        /\ LET th == threads[t]
           IN /\ tree_monitoring' =
                     IF th.row = None
                     THEN Append(tree_monitoring,
                              [tree_id |-> th.args.tree_id,
                               submission_id |-> th.args._id,
                               dbh_cm |-> th.dbh_cm, rcd_cm |-> th.rcd_cm,
                               height_m |-> th.height_m, co2_kg |-> th.co2_kg,
                               co2_details |-> th.co2_details,
                               agro_ecological_zone |-> th.agro_ecological_zone,
                               monitored_at |-> today, monitor_count |-> 1])
                     ELSE LET old == tree_monitoring[th.row.id]
                          IN [tree_monitoring EXCEPT ![th.row.id] =
                                 [tree_id |-> old.tree_id,
                                  submission_id |-> old.submission_id,
                                  dbh_cm |-> th.dbh_cm, rcd_cm |-> th.rcd_cm,
                                  height_m |-> th.height_m, co2_kg |-> th.co2_kg,
                                  co2_details |-> th.co2_details,
                                  agro_ecological_zone |-> th.agro_ecological_zone,
                                  monitored_at |-> today,
                                  monitor_count |-> th.row.monitor_count + 1]]
              /\ history' =
                     [history EXCEPT
                         !.monitoring[th.args._id] = @ + 1,
                         !.saved = @ \cup {<<th.args._id, th.args.tree_id, today>>}]
              /\ threads' = [threads EXCEPT ![t] = [th EXCEPT !.pc = "inventory"]]
        /\ UNCHANGED <<module_vars, trees, processed_submissions, today>>

\* update_tree_inventory, lines 168-178
UpdateTreeInventory ==
    \E t \in DOMAIN threads :
        /\ threads[t].pc = "inventory"
        /\ LET th == threads[t]
               old == trees[th.args.tree_id.s]
           IN /\ trees' = [trees EXCEPT ![th.args.tree_id.s] =
                     [old EXCEPT !.dbh_cm = th.dbh_cm, !.height_m = th.height_m,
                                 !.co2_kg = th.co2_kg,
                                 !.last_monitored_at = Rat(today, 1)]]
              /\ history' = [history EXCEPT !.inventory[th.args._id] = @ + 1]
              /\ threads' = [threads EXCEPT ![t] = [th EXCEPT !.pc = "mark"]]
        /\ UNCHANGED <<module_vars, tree_monitoring, processed_submissions, today>>

\* mark_submission_processed (INSERT OR IGNORE), then return True
MarkSubmissionProcessed ==
    \E t \in DOMAIN threads :
        /\ threads[t].pc = "mark"
        /\ processed_submissions' = processed_submissions \cup {threads[t].args._id}
        /\ threads' = [threads EXCEPT ![t] = Finished(threads[t], Bool(TRUE))]
        /\ UNCHANGED <<module_vars, trees, tree_monitoring, today, history>>

\* the UTC date changes
Midnight ==
    /\ today < MaxDay
    /\ today' = today + 1
    /\ UNCHANGED <<module_vars, threads, trees, tree_monitoring,
                   processed_submissions, history>>

MonitoringNext ==
    \/ ProcessSubmissionCheck
    \/ ProcessSubmissionMeasure
    \/ SaveMonitoringRecordSelect
    \/ SaveMonitoringRecordWrite
    \/ UpdateTreeInventory
    \/ MarkSubmissionProcessed
    \/ Midnight

Monitoring == MonitoringInit /\ [][MonitoringNext]_vars

OneSubmission == SubmissionInit /\ [][MonitoringNext]_vars

\* ------------------------------------------------------------------------
\* Properties of process_submission
\* ------------------------------------------------------------------------
\* C28: whatever the order and the interleaving of the calls, a submission
\* id causes at most one insert or increment in tree_monitoring and at most
\* one update of the inventory.
C28_AppliedAtMostOnce ==
    \A id \in SubmissionIds :
        /\ history.monitoring[id] <= 1
        /\ history.inventory[id] <= 1

\* no call is under way
Quiescent == \A t \in DOMAIN threads : ~InProgress(threads[t])

\* C29: after calls made one after the other, tree_monitoring has at most
\* one row per tree and date, the row's monitor_count is the number of
\* submissions saved for that tree on that date, and every processed
\* submission id is the submission_id of some row.
C29_MonitoringRows ==
    (Quiescent /\ ~history.overlapped)
        => LET rows == 1..Len(tree_monitoring)
           IN /\ \A i, j \in rows :
                    (/\ tree_monitoring[i].tree_id = tree_monitoring[j].tree_id
                     /\ tree_monitoring[i].monitored_at
                            = tree_monitoring[j].monitored_at) => i = j
              /\ \A i \in rows :
                    tree_monitoring[i].monitor_count =
                        Cardinality({saved \in history.saved :
                            /\ saved[2] = tree_monitoring[i].tree_id
                            /\ saved[3] = tree_monitoring[i].monitored_at})
              /\ \A id \in processed_submissions :
                    \E i \in rows : tree_monitoring[i].submission_id = id

\* the measurement parses to a number other than 0
NonZero(field) ==
    /\ Float(field).k = "return"
    /\ Float(field).v.n # 0

\* C30: a call of process_submission ends by returning True or False, never
\* with an exception of the estimator; the co2_kg it stores is a number or
\* NULL, and NULL exactly when neither dbh_cm nor rcd_cm is a non-zero
\* number or height_m is not one.
C30_NeverInvalidInput ==
    \A t \in DOMAIN threads :
        LET th == threads[t]
        IN /\ th.pc = "done" => th.out \in {Bool(TRUE), Bool(FALSE)}
           /\ \A i \in 1..Len(tree_monitoring) :
                 tree_monitoring[i].submission_id = th.args._id
                    => /\ \/ IsNumeric(tree_monitoring[i].co2_kg)
                          \/ IsNone(tree_monitoring[i].co2_kg)
                       /\ IsNone(tree_monitoring[i].co2_kg)
                             <=> ~(/\ \/ NonZero(th.args.dbh_cm)
                                      \/ NonZero(th.args.rcd_cm)
                                   /\ NonZero(th.args.height_m))

\* a submission with dbh_cm "0", an unparsable rcd_cm and height_m "5" was
\* processed and its co2_kg stored as NULL
C30_Witness ==
    \E t \in DOMAIN threads :
        /\ threads[t].pc = "done" /\ threads[t].out = Bool(TRUE)
        /\ threads[t].args.dbh_cm = Str(<<"0">>)
        /\ threads[t].args.rcd_cm = Str(<<"x">>)
        /\ threads[t].args.height_m = Str(<<"5">>)
        /\ Len(tree_monitoring) = 1
        /\ IsNone(tree_monitoring[1].co2_kg)

====
